---------------------------- MODULE Spec2Model ----------------------------
(***************************************************************************)
(* Flappy Kuwait: the per-frame simulation of src/core/GameManager.ts and  *)
(* its entities (Player, Obstacle, ObstacleManager, Star, StarManager),    *)
(* and the canvas game of src/components/GameCanvas.jsx under App.jsx.     *)
(* The variable app says which of the two games the page runs.             *)
(*                                                                         *)
(* Units.  Lengths are in tenths of a pixel and velocities in tenths of a  *)
(* pixel per ticker unit, so that the configured fractions (speed 2.5,     *)
(* gravity 0.5, jumpForce -8.5, radius 7.5, speedIncrease 0.3) are exact   *)
(* integers: a source value v appears here as 10*v.  Frame deltas are      *)
(* whole ticker units.  Wall-clock time is in milliseconds.                *)
(***************************************************************************)
EXTENDS Integers, Sequences, FiniteSets

(***************************************************************************)
(* DEFAULT_CONFIG (GameConfig.ts), in tenths.                              *)
(***************************************************************************)
canvas_width == 4000
canvas_height == 6000
player_size == 150
player_gravity == 5
player_jumpForce == -85
player_maxVelocityY == 100
player_startX == 1000
player_startY == 3000
obstacles_width == 600
obstacles_gapSize == 1500
obstacles_horizontalSpacing == 2500
obstacles_speed == 25
obstacles_spawnX == 4500
obstacles_minHeight == 1000
difficulty_gapReduction == 100
difficulty_speedIncrease == 3
difficulty_minGapSize == 1000
difficulty_maxSpeed == 45
scoreThresholds == <<5, 10, 20, 35, 50>>
ground_height_permille == 50
jumpCooldown == 100
shakeDuration == 60000
shakeMsPerDelta == 1667
starRadius == 200
starEvery == 5
removeBuffer == 500
starRemoveX == 1000

(***************************************************************************)
(* The canvas game (components/GameCanvas.jsx, utils/gameUtils.js, App.jsx)*)
(* in hundredths of a pixel, per animation frame.                          *)
(***************************************************************************)
PHYSICS_GRAVITY == 100
PHYSICS_FLAP_STRENGTH == -1200
PHYSICS_BASE_TOWER_SPEED == 250
PHYSICS_GROUND_HEIGHT == 6000
maxFallSpeed == 1200
FALCON_X == 8000
FALCON_WIDTH == 3400
FALCON_HEIGHT == 2400
TOWER_WIDTH == 7000
GROUND_Y_OFFSET == 6000
baseGapSize == 16000
minGapSizeCanvas == 13000
maxGapReduction == 3000
gapReductionPerLevel == 500
baseTowerSpacing == 32000
minTowerSpacing == 25000
maxSpacingReduction == 5000
spacingReductionPerLevel == 1000
scorePerLevel == 10
minGapFromTop == 6000
minGapFromBottom == 8000
minTowerHeight == 2000

(***************************************************************************)
(* Bounds of the model.                                                    *)
(***************************************************************************)
MaxScore == 6
MaxRuns == 2
MaxCanvasScore == 2
MaxDifficultyScore == 51
\* window.innerWidth and window.innerHeight seen by the canvas game, in pixels
innerWidth == 40
innerHeight == 176

\* Obstacles (towers) spawned in one run of the spawner specification, and obstacles
\* (towers) it keeps on screen at a time
MaxSpawned == 11
MaxOnScreen == 1

\* window.innerHeight at page load in the spawner specification, in pixels
Heights == {200, 300, 600}

\* Best scores an earlier session may have left in localStorage (0: none)
StoredAtLoad == {0, 3}

\* Frame deltas handed to update(), in ticker units.
Deltas == {16}
\* Values of Math.random() tried by the spawner, as <<numerator, denominator>>.
RandChoices == {<<1, 4>>, <<1, 2>>, <<9, 10>>}
\* Wall-clock steps between events, in milliseconds.
TickSteps == {50}

Max(a, b) == IF a > b THEN a ELSE b
Min(a, b) == IF a < b THEN a ELSE b

VARIABLES
    app,                \* which entry point is loaded: "pixi" (main.ts) or "react" (App.jsx)
    currentState,       \* GameManager.currentState
    score,              \* GameManager.score
    difficultyLevel,    \* GameManager.difficultyLevel
    player,             \* Player: x, y, velocityY, isAlive
    sinceLastJump,      \* Date.now() - Player.lastJumpTime, saturated at jumpCooldown;
                        \* in the canvas game, history: time since the last flap
    obstacles,          \* ObstacleManager.obstacles
    spawnTimer,         \* ObstacleManager.spawnTimer, as num / den ticker units
    currentGapSize,     \* ObstacleManager.currentGapSize
    currentSpeed,       \* ObstacleManager.currentSpeed
    cfgGapSize,         \* CONFIG.obstacles.gapSize (mutated at run time)
    cfgSpeed,           \* CONFIG.obstacles.speed (mutated at run time)
    stars,              \* StarManager.stars
    obstacleCount,      \* StarManager.obstacleCount
    shakeTimer,         \* GameManager.shakeTimer, in hundredths of a millisecond
    gameOverCalls,      \* history: calls of gameOver() since the last resetGame()
    runs,               \* history: number of resetGame() / initializeGame() calls
    gameState,          \* App.gameState: "home", "playing", "gameOver"
    falcon,             \* GameCanvas gameState.falcon: y, velocityY
    towers,             \* GameCanvas gameState.towers
    scoredTowers,       \* GameCanvas scoredTowers.current
    currentScore,       \* GameCanvas currentScore.current
    currentDifficulty,  \* GameCanvas gameState.currentDifficulty.difficultyLevel
    towerIds,           \* number of tower ids handed out (Date.now() + Math.random())
    audioWorks,         \* environment: FALSE when constructing an AudioContext throws
    difficultyEnabled,  \* CONFIG.difficulty.enabled
    ui,                 \* UI.currentScore and the number shown by UI.finalScoreText
    config,             \* the CONFIG fields GameManager.resize writes
    highScore,          \* App's highScore state
    storedHighScore,    \* localStorage 'kuwaitFlyerHighScore' as parseInt reads it (0: none)
    storageWorks,       \* environment: FALSE while calls on localStorage throw
    readFailed,         \* history: the getHighScore call at page load threw inside
    writeFailed,        \* history: a setHighScore call of this page threw inside
    viewportHeight      \* window.innerHeight in pixels, as GameManager.resize and
                        \* getCanvasDimensions last read it

pixiVars == <<currentState, score, difficultyLevel, player, obstacles,
              spawnTimer, currentGapSize, currentSpeed, cfgGapSize, cfgSpeed, stars,
              obstacleCount, shakeTimer>>

storageVars == <<highScore, storedHighScore, storageWorks, readFailed, writeFailed>>

canvasVars == <<gameState, falcon, towers, scoredTowers, currentScore,
                currentDifficulty, towerIds, storageVars>>

vars == <<app, pixiVars, sinceLastJump, canvasVars, gameOverCalls, runs, viewportHeight,
          audioWorks, difficultyEnabled, config, ui>>

(***************************************************************************)
(* Player (Player.ts)                                                      *)
(***************************************************************************)

\* Player.reset
Player_reset ==
    [x |-> player_startX, y |-> player_startY, velocityY |-> 0, isAlive |-> TRUE]

\* Player.die: no-op when already dead; velocity zeroed
Player_die(p) ==
    IF ~p.isAlive THEN p ELSE [p EXCEPT !.isAlive = FALSE, !.velocityY = 0]

\* Player.checkBounds: the physics step kills at size from the top and bottom
\* edges of the canvas, and constrains x to [size, width - size]
Player_checkBounds(p) ==
    LET top == player_size
        bottom == canvas_height - player_size
        left == player_size
        right == canvas_width - player_size
        q == IF p.y <= top \/ p.y >= bottom THEN Player_die(p) ELSE p
    IN  [q EXCEPT !.x = IF q.x < left THEN left ELSE IF q.x > right THEN right ELSE q.x]

\* Player.update without the clamp of the vertical velocity
clampVelocityY_none(v) == v

\* Player.update: Math.max(-maxVelocityY, Math.min(maxVelocityY, velocityY))
clampVelocityY(v) == Max(-player_maxVelocityY, Min(player_maxVelocityY, v))

\* Player.update(deltaTime); velocityX is 0 throughout, so x only moves by the clamp
Player_update(p, delta) ==
    IF ~p.isAlive THEN p
    ELSE LET v1 == p.velocityY + player_gravity * delta
             v2 == clampVelocityY(v1)
         IN  Player_checkBounds([p EXCEPT !.velocityY = v2, !.y = p.y + v2 * delta])

(***************************************************************************)
(* Obstacle (Obstacle.ts)                                                  *)
(***************************************************************************)

\* Obstacle.randomGapPosition with CONFIG.canvas.height = height, Math.random() =
\* r[1] / r[2]
randomGapPositionAt(r, gapSize, height) ==
    LET minY == obstacles_minHeight + gapSize \div 2
        maxY == height - obstacles_minHeight - gapSize \div 2
    IN  minY + (r[1] * (maxY - minY)) \div r[2]

\* Obstacle.randomGapPosition on the default canvas
randomGapPosition(r, gapSize) == randomGapPositionAt(r, gapSize, canvas_height)

\* new Obstacle(x) with CONFIG.canvas.height = height: constructor and
\* calculateHeights, reading CONFIG.obstacles.gapSize
Obstacle_newAt(x, gapY, gapSize, id, height) ==
    [id |-> id, x |-> x, gapY |-> gapY,
     topHeight |-> gapY - gapSize \div 2,
     bottomHeight |-> height - (gapY + gapSize \div 2),
     scored |-> FALSE]

\* new Obstacle(x) on the default canvas
Obstacle_new(x, gapY, gapSize, id) == Obstacle_newAt(x, gapY, gapSize, id, canvas_height)

\* Obstacle.checkCollision(playerX, playerY, playerRadius), reading the CONFIG gap size
Obstacle_checkCollision(o, px, py, radius, gapSize) ==
    /\ px + radius > o.x
    /\ px - radius < o.x + obstacles_width
    /\ \/ py - radius < o.topHeight
       \/ py + radius > o.gapY + gapSize \div 2

\* The closest-point test of Player.checkRectangularCollision for a circle at
\* (px, py): Math.sqrt(dx * dx + dy * dy) < radius, compared as squares
closestPointCollision(px, py, radius, rectX, rectY, rectWidth, rectHeight) ==
    LET closestX == Max(rectX, Min(px, rectX + rectWidth))
        closestY == Max(rectY, Min(py, rectY + rectHeight))
        dx == px - closestX
        dy == py - closestY
    IN  dx * dx + dy * dy < radius * radius

\* Player.checkRectangularCollision: never for a dead avatar, and with
\* CONFIG.player.size as the radius
Player_checkRectangularCollision(p, rectX, rectY, rectWidth, rectHeight) ==
    /\ p.isAlive
    /\ closestPointCollision(p.x, p.y, player_size, rectX, rectY, rectWidth, rectHeight)

\* Obstacle.checkScore(playerX): TRUE when this call scores the obstacle
Obstacle_passes(o, px) == ~o.scored /\ px > o.x + obstacles_width

\* Obstacle.checkScore without the assignment to this.scored
Obstacle_checkScore_unmarked(o, px) == o

\* Obstacle.checkScore(playerX): the obstacle after the call
Obstacle_checkScore(o, px) ==
    IF Obstacle_passes(o, px) THEN [o EXCEPT !.scored = TRUE] ELSE o

\* Obstacle.shouldRemove
Obstacle_shouldRemove(o) == o.x + obstacles_width < -removeBuffer

(***************************************************************************)
(* Star (Star.ts)                                                          *)
(***************************************************************************)

\* Math.sin(b / 10) * 0.3 pixels, rounded to a tenth of a pixel (b in tenths of a radian)
BobStep(b) ==
    LET m == b % 63
        h == IF m <= 31 THEN m ELSE m - 32
        a == IF m <= 31
             THEN (IF h >= 10 /\ h <= 21 THEN 3
                   ELSE IF h >= 6 /\ h <= 26 THEN 2
                   ELSE IF h >= 2 /\ h <= 29 THEN 1 ELSE 0)
             ELSE (IF h >= 10 /\ h <= 20 THEN 3
                   ELSE IF h >= 5 /\ h <= 25 THEN 2
                   ELSE IF h >= 2 /\ h <= 29 THEN 1 ELSE 0)
    IN  IF m <= 31 THEN a ELSE -a

\* new Star(x, y)
Star_new(x, y, id) == [id |-> id, x |-> x, y |-> y, collected |-> FALSE, bobOffset |-> 0]

\* Star.update(deltaTime): bob, then move left at CONFIG.obstacles.speed
Star_update(s, delta, speed) ==
    IF s.collected THEN s
    ELSE [s EXCEPT !.bobOffset = s.bobOffset + delta,
                   !.y = s.y + BobStep(s.bobOffset + delta),
                   !.x = s.x - speed * delta]

\* Star.checkCollision(playerX, playerY, playerRadius)
Star_checkCollision(s, px, py, radius) ==
    /\ ~s.collected
    /\ (s.x - px) * (s.x - px) + (s.y - py) * (s.y - py)
          < (radius + starRadius) * (radius + starRadius)

\* Star.shouldRemove
Star_shouldRemove(s) == s.x < -starRemoveX \/ s.collected

\* StarManager.checkCollisions: TRUE for a star this call collects
Star_collects(s, px, py, radius) == ~s.collected /\ Star_checkCollision(s, px, py, radius)

\* Star.collect without the assignment to collected
Star_collect_unmarked(s) == s

\* Star.collect, as called by StarManager.checkCollisions
Star_collect(s) ==
    IF s.collected THEN s ELSE [s EXCEPT !.collected = TRUE]

(***************************************************************************)
(* Sequence helpers                                                        *)
(***************************************************************************)
\* number of elements of seq satisfying Test (Array.reduce / forEach counters)
Count(seq, Test(_)) == Cardinality({i \in 1..Len(seq) : Test(seq[i])})

\* Array.some
Some(seq, Test(_)) == \E i \in 1..Len(seq) : Test(seq[i])

(***************************************************************************)
(* ObstacleManager and StarManager                                         *)
(***************************************************************************)

\* StarManager.onObstacleSpawned counting from the spawn after the first
StarManager_onObstacleSpawned_late(ss, n, obstacleX, gapY) ==
    IF (n - 1) % starEvery = 0
    THEN Append(ss, Star_new(obstacleX + obstacles_width \div 2, gapY, n))
    ELSE ss

\* StarManager.onObstacleSpawned / spawnStar: the star list after the n-th spawn
StarManager_onObstacleSpawned(ss, n, obstacleX, gapY) ==
    IF n % starEvery = 0
    THEN Append(ss, Star_new(obstacleX + obstacles_width \div 2, gapY, n))
    ELSE ss

\* StarManager.update: advance every star, drop those off-screen or collected
StarManager_update(ss, delta, speed) ==
    SelectSeq([i \in 1..Len(ss) |-> Star_update(ss[i], delta, speed)],
              LAMBDA s : ~Star_shouldRemove(s))

\* ObstacleManager.update, second half: move every obstacle, drop those off-screen
ObstacleManager_advance(os, delta, speed) ==
    SelectSeq([i \in 1..Len(os) |-> [os[i] EXCEPT !.x = os[i].x - speed * delta]],
              LAMBDA o : ~Obstacle_shouldRemove(o))

\* ObstacleManager.updateDifficulty(gapSize, speed): the clamped gap size
ObstacleManager_gap(gapSize) == Max(gapSize, difficulty_minGapSize)

\* ObstacleManager.updateDifficulty(gapSize, speed): the clamped speed
ObstacleManager_speed(speed) == Min(speed, difficulty_maxSpeed)

(***************************************************************************)
(* GameManager (GameManager.ts)                                            *)
(***************************************************************************)

\* GameManager.checkCollisions: groundY from the canvas height
groundY == canvas_height - (ground_height_permille * canvas_height) \div 1000

\* CONFIG.player.size / 2, the radius handed to the collision tests
playerRadius == player_size \div 2

\* GameManager.checkCollisions without the ceiling and ground tests
checkCollisions_obstaclesOnly(p, os, gapSize) ==
    Some(os, LAMBDA o : Obstacle_checkCollision(o, p.x, p.y, playerRadius, gapSize))

\* GameManager.checkCollisions
checkCollisions(p, os, gapSize) ==
    \/ p.y <= 0
    \/ p.y >= groundY
    \/ Some(os, LAMBDA o : Obstacle_checkCollision(o, p.x, p.y, playerRadius, gapSize))

\* GameManager.updateDifficulty: the level for a score, i + 1 for the last threshold
\* the score has reached
LevelFor(sc) ==
    LET reached == {i \in DOMAIN scoreThresholds : sc >= scoreThresholds[i]}
    IN  IF reached = {} THEN 0 ELSE CHOOSE i \in reached : \A j \in reached : j <= i

\* GameManager.updateDifficulty: the guard under which a computed level is adopted
levelRises(newLevel, level) == newLevel > level

\* GameManager.updateDifficulty: newGapSize at a level, from CONFIG.obstacles.gapSize
newGapSize(level, gapSize) ==
    Max(gapSize - level * difficulty_gapReduction, difficulty_minGapSize)

\* GameManager.updateDifficulty: newSpeed at a level, from CONFIG.obstacles.speed
newSpeed(level, speed) ==
    Min(speed + level * difficulty_speedIncrease, difficulty_maxSpeed)

\* The gap size at a level without Math.max in either updateDifficulty
appliedGapSize_unclamped(level, gapSize) == gapSize - level * difficulty_gapReduction

\* GameManager.updateDifficulty down to ObstacleManager.updateDifficulty: the gap size
\* put into effect at a level
appliedGapSize(level, gapSize) == ObstacleManager_gap(newGapSize(level, gapSize))

\* GameManager.updateDifficulty down to ObstacleManager.updateDifficulty: the speed
\* put into effect at a level
appliedSpeed(level, speed) == ObstacleManager_speed(newSpeed(level, speed))

\* GameManager.gameOver without the setState call
gameOver_noTransition(st) == st

\* GameManager.gameOver: the state it sets
gameOver(st) == "game_over"

\* GameManager.startScreenShake, then the updateScreenShake of the same frame
updateScreenShake(timer, delta) ==
    IF timer <= 0 THEN timer ELSE timer - delta * shakeMsPerDelta

\* The page once loaded: GameManager's constructor and initialize() with the menu
\* showing, or App's initial render with the home screen showing
Constructed ==
    /\ ui = [currentScore |-> 0, finalScoreText |-> 0]
    /\ gameState = "home"
    /\ falcon = [y |-> 0, velocityY |-> 0]
    /\ towers = <<>>
    /\ scoredTowers = {}
    /\ currentScore = 0
    /\ currentDifficulty = 0
    /\ towerIds = 0
    /\ currentState = "menu"
    /\ score = 0
    /\ difficultyLevel = 0
    /\ player = Player_reset
    /\ sinceLastJump = jumpCooldown
    /\ obstacles = <<>>
    /\ spawnTimer = [num |-> 0, den |-> obstacles_speed]
    /\ currentGapSize = obstacles_gapSize
    /\ currentSpeed = obstacles_speed
    /\ cfgGapSize = obstacles_gapSize
    /\ cfgSpeed = obstacles_speed
    /\ stars = <<>>
    /\ obstacleCount = 0
    /\ shakeTimer = 0
    /\ gameOverCalls = 0
    /\ runs = 0

\* storage.getHighScore returning the stored value although the read threw
getHighScore_stale(ok, st) == st

\* storage.getHighScore: parseInt(localStorage.getItem(...)) || 0, and 0 from the
\* catch block when the read throws (ok = FALSE)
getHighScore(ok, st) == IF ok THEN st ELSE 0

\* storage.setHighScore: the stored value after the call; the catch block leaves
\* it alone when the write throws (ok = FALSE)
setHighScore(ok, st, sc) == IF ok THEN sc ELSE st

\* App's mount effect: the high score read from a store holding st; ok is FALSE when
\* localStorage throws
Mounted(st, ok) ==
    /\ storedHighScore = st
    /\ storageWorks = ok
    /\ highScore = getHighScore(ok, st)
    /\ readFailed = ~ok
    /\ writeFailed = FALSE

\* CONFIG after the constructor: the canvas takes the window's size, and the resize()
\* call of configureMobile returns from repositionGameElements at once
\* (isInitialized is still false), so the other fields keep the shipped values
ConfigAsConstructed ==
    [canvas_width |-> canvas_width, canvas_height |-> canvas_height,
     startX |-> player_startX, startY |-> player_startY,
     spawnX |-> obstacles_spawnX,
     groundHeight |-> (ground_height_permille * canvas_height) \div 1000]

\* GameConfig.difficulty.enabled as shipped
difficulty_enabled == TRUE

\* The page loaded in a window of the height the frame simulation is run in, with an
\* empty, working store
Init ==
    /\ app \in {"pixi", "react"}
    /\ audioWorks = TRUE
    /\ difficultyEnabled = difficulty_enabled
    /\ config = ConfigAsConstructed
    /\ viewportHeight = IF app = "pixi" THEN canvas_height \div 10 ELSE innerHeight
    /\ Constructed
    /\ Mounted(0, TRUE)

\* GameManager.updateDifficulty, called with this.score = sc
updateDifficulty(sc) ==
    LET newLevel == LevelFor(sc)
    IN  IF levelRises(newLevel, difficultyLevel)
        THEN /\ difficultyLevel' = newLevel
             /\ currentGapSize' = appliedGapSize(newLevel, cfgGapSize)
             /\ currentSpeed' = appliedSpeed(newLevel, cfgSpeed)
             /\ cfgGapSize' = currentGapSize'
             /\ cfgSpeed' = currentSpeed'
        ELSE UNCHANGED <<difficultyLevel, currentGapSize, currentSpeed, cfgGapSize,
                         cfgSpeed>>

\* ObstacleManager.reset without emptying the obstacle list
ObstacleManager_reset_keep(os) == os

\* ObstacleManager.reset: the obstacle list it leaves
ObstacleManager_reset(os) == <<>>

\* UI.updateScore(score)
UI_updateScore(u, sc) == [u EXCEPT !.currentScore = sc]

\* UI.setState(GameState.PLAYING), which startGame and restartGame call right after
\* resetGame: the game-over container is hidden.  The text it holds is read by
\* nothing and is overwritten by the next setState(GAME_OVER) before it is shown
\* again, so the hidden overlay is kept as showing 0.
UI_setStatePlaying(u) == [u EXCEPT !.finalScoreText = 0]

\* UI.setState(GameState.GAME_OVER): finalScoreText takes UI.currentScore; sc is
\* the game manager's score, which the method does not read
UI_setStateGameOver(u, sc) == [u EXCEPT !.finalScoreText = u.currentScore]

\* UI.refreshVisuals: the overlay is rebuilt with 'Score: 0' and, in GAME_OVER,
\* shows UI.currentScore
UI_refreshVisuals(u, st) ==
    IF st = "game_over" THEN [u EXCEPT !.finalScoreText = u.currentScore]
    ELSE [u EXCEPT !.finalScoreText = 0]

\* GameManager.resetGame, with Player.reset, ObstacleManager.reset, StarManager.reset
\* and UI.updateScore(0)
resetGame ==
    /\ score' = 0
    /\ ui' = UI_setStatePlaying(UI_updateScore(ui, 0))
    /\ difficultyLevel' = 0
    /\ player' = Player_reset
    /\ obstacles' = ObstacleManager_reset(obstacles)
    /\ spawnTimer' = [num |-> 0, den |-> cfgSpeed]
    /\ currentGapSize' = cfgGapSize
    /\ currentSpeed' = cfgSpeed
    /\ stars' = <<>>
    /\ obstacleCount' = 0
    /\ shakeTimer' = 0
    /\ gameOverCalls' = 0
    /\ runs' = runs + 1
    /\ UNCHANGED <<app, audioWorks, difficultyEnabled, config, viewportHeight, cfgGapSize, cfgSpeed, sinceLastJump,
                   canvasVars>>

\* GameManager.startGame, from the menu's start button
StartGame ==
    /\ app = "pixi"
    /\ currentState = "menu"
    /\ runs < MaxRuns
    /\ resetGame
    /\ currentState' = "playing"

\* GameManager.restartGame, from the game-over screen's restart button
RestartGame ==
    /\ app = "pixi"
    /\ currentState = "game_over"
    /\ runs < MaxRuns
    /\ resetGame
    /\ currentState' = "playing"

\* Player.jump: the guards under which a call applies the impulse
canJump(p, since) == p.isAlive /\ since >= jumpCooldown

\* GameManager.handleInput without the early return outside PLAYING
acceptsInput_always(st) == TRUE

\* GameManager.handleInput: input is processed only during gameplay
acceptsInput(st) == st = "playing"

\* GameManager.handleInput with a jump event, and Player.jump: ignored unless the
\* game is playing, the player alive and the cooldown over
Jump ==
    /\ app = "pixi"
    /\ IF acceptsInput(currentState) /\ canJump(player, sinceLastJump)
       THEN /\ player' = [player EXCEPT !.velocityY = player_jumpForce]
            /\ sinceLastJump' = 0
       ELSE UNCHANGED <<player, sinceLastJump>>
    /\ UNCHANGED <<app, audioWorks, difficultyEnabled, config, ui, viewportHeight, currentState, score, difficultyLevel,
                   obstacles, spawnTimer,
                   currentGapSize, currentSpeed, cfgGapSize, cfgSpeed, stars,
                   obstacleCount, shakeTimer, gameOverCalls, runs, canvasVars>>

\* GameManager.pauseGame: the state it leaves
pauseGame(st) == IF st = "playing" THEN "paused" ELSE st

\* An Escape keydown that pauses whatever the state
handleEscape_anyState(st) == "paused"

\* GameManager.handleInput with an Escape keydown: the state it leaves
handleEscape(st) == IF ~acceptsInput(st) THEN st ELSE pauseGame(st)

\* GameManager.handleInput with an Escape keydown
Escape ==
    /\ app = "pixi"
    /\ currentState' = handleEscape(currentState)
    /\ UNCHANGED <<app, audioWorks, difficultyEnabled, config, ui, viewportHeight, score, difficultyLevel, player, sinceLastJump,
                   obstacles,
                   spawnTimer, currentGapSize, currentSpeed, cfgGapSize, cfgSpeed, stars,
                   obstacleCount, shakeTimer, gameOverCalls, runs, canvasVars>>

\* The visibilitychange listener when the tab becomes hidden: pauseGame while playing
PageHidden ==
    /\ app = "pixi"
    /\ currentState' = (IF currentState = "playing" THEN pauseGame(currentState)
                        ELSE currentState)
    /\ UNCHANGED <<app, audioWorks, difficultyEnabled, config, ui, viewportHeight, score, difficultyLevel, player, sinceLastJump,
                   obstacles, spawnTimer, currentGapSize, currentSpeed, cfgGapSize,
                   cfgSpeed, stars, obstacleCount, shakeTimer, gameOverCalls, runs,
                   canvasVars>>

\* GameManager.resumeGame, from the pause screen's resume button
ResumeGame ==
    /\ app = "pixi"
    /\ currentState = "paused"
    /\ currentState' = "playing"
    /\ UNCHANGED <<app, audioWorks, difficultyEnabled, config, ui, viewportHeight, score, difficultyLevel, player, sinceLastJump,
                   obstacles,
                   spawnTimer, currentGapSize, currentSpeed, cfgGapSize, cfgSpeed, stars,
                   obstacleCount, shakeTimer, gameOverCalls, runs, canvasVars>>

\* Date.now() moves on by ms between two events
TimePasses(ms) ==
    /\ app = "pixi"
    /\ sinceLastJump < jumpCooldown
    /\ sinceLastJump' = Min(sinceLastJump + ms, jumpCooldown)
    /\ UNCHANGED <<app, audioWorks, difficultyEnabled, config, ui, viewportHeight, currentState, score, difficultyLevel, player,
                   obstacles,
                   spawnTimer, currentGapSize, currentSpeed, cfgGapSize, cfgSpeed, stars,
                   obstacleCount, shakeTimer, gameOverCalls, runs, canvasVars>>

\* ObstacleManager.update re-arming the countdown to half the spacing
rearmed_half(speed) == [num |-> obstacles_horizontalSpacing \div 2, den |-> speed]

\* ObstacleManager.update: this.spawnTimer = CONFIG.obstacles.horizontalSpacing /
\* this.currentSpeed, kept as a fraction
rearmed(speed) == [num |-> obstacles_horizontalSpacing, den |-> speed]

\* GameManager.update(delta), the PLAYING branch; r is the spawner's Math.random()
updatePlaying(delta, r) ==
    LET \* this.player.update(delta)
        p1 == Player_update(player, delta)
        \* this.obstacleManager.update(delta)
        t1 == spawnTimer.num - delta * spawnTimer.den
        spawn == t1 <= 0
        gapY == randomGapPosition(r, cfgGapSize)
        n1 == IF spawn THEN obstacleCount + 1 ELSE obstacleCount
        os1 == IF spawn
               THEN Append(obstacles, Obstacle_new(obstacles_spawnX, gapY, cfgGapSize, n1))
               ELSE obstacles
        ss1 == IF spawn
               THEN StarManager_onObstacleSpawned(stars, n1, obstacles_spawnX, gapY)
               ELSE stars
        os2 == ObstacleManager_advance(os1, delta, cfgSpeed)
        \* this.starManager.update(delta)
        ss2 == StarManager_update(ss1, delta, cfgSpeed)
        \* if (this.checkCollisions()) this.gameOver()
        hit == checkCollisions(p1, os2, cfgGapSize)
        \* this.obstacleManager.checkScore(this.player.x)
        newScore == Count(os2, LAMBDA o : Obstacle_passes(o, p1.x))
        os3 == [i \in 1..Len(os2) |-> Obstacle_checkScore(os2[i], p1.x)]
        sc1 == score + newScore
        \* this.starManager.checkCollisions(...)
        starsCollected == Count(ss2, LAMBDA s : Star_collects(s, p1.x, p1.y, playerRadius))
        ss3 == [i \in 1..Len(ss2) |->
                   IF Star_collects(ss2[i], p1.x, p1.y, playerRadius)
                   THEN Star_collect(ss2[i]) ELSE ss2[i]]
    IN  /\ player' = p1
        /\ spawnTimer' = IF spawn
                         THEN rearmed(currentSpeed)
                         ELSE [spawnTimer EXCEPT !.num = t1]
        /\ obstacleCount' = n1
        /\ obstacles' = os3
        /\ stars' = ss3
        /\ currentState' = IF hit THEN gameOver(currentState) ELSE currentState
        /\ gameOverCalls' = IF hit THEN gameOverCalls + 1 ELSE gameOverCalls
        /\ shakeTimer' = updateScreenShake(IF hit THEN shakeDuration ELSE shakeTimer, delta)
        /\ score' = sc1 + starsCollected
        /\ LET u1 == IF hit THEN UI_setStateGameOver(ui, score) ELSE ui
               u2 == IF newScore > 0 THEN UI_updateScore(u1, sc1) ELSE u1
           IN  ui' = IF starsCollected > 0
                     THEN UI_updateScore(u2, sc1 + starsCollected) ELSE u2
        /\ IF newScore > 0
           THEN updateDifficulty(sc1)
           ELSE UNCHANGED <<difficultyLevel, currentGapSize, currentSpeed, cfgGapSize,
                            cfgSpeed>>

\* GameManager.update(delta), one ticker callback in any state: outside PLAYING only
\* the screen shake runs on
Frame(delta, r) ==
    /\ app = "pixi"
    /\ score < MaxScore
    /\ IF currentState = "playing"
       THEN updatePlaying(delta, r)
       ELSE /\ shakeTimer' = updateScreenShake(shakeTimer, delta)
            /\ UNCHANGED <<ui, currentState, score, difficultyLevel, player, obstacles,
                           spawnTimer, currentGapSize, currentSpeed, cfgGapSize, cfgSpeed,
                           stars, obstacleCount, gameOverCalls>>
    /\ UNCHANGED <<app, audioWorks, difficultyEnabled, config, viewportHeight, sinceLastJump, runs, canvasVars>>


(***************************************************************************)
(* The canvas game: gameUtils.js, GameCanvas.jsx, App.jsx                  *)
(***************************************************************************)

\* FRAME_TIME = 1000 / TARGET_FPS: the least time between two gameLoop frames, in
\* whole milliseconds
FRAME_TIME == 16

\* canvas.width and canvas.height (getCanvasDimensions), in hundredths of a pixel
canvasWidth == innerWidth * 100
canvasHeight == innerHeight * 100

\* App.handleGameOver storing every final score
isNewHighScore_always(finalScore, best) == TRUE

\* App.handleGameOver: the test for a new high score
isNewHighScore(finalScore, best) == finalScore > best

\* App.handleGameOver(finalScore), as called through onGameOver
handleGameOver(finalScore) ==
    /\ gameState' = "gameOver"
    /\ IF isNewHighScore(finalScore, highScore)
       THEN /\ highScore' = finalScore
            /\ storedHighScore' = setHighScore(storageWorks, storedHighScore, finalScore)
            /\ writeFailed' = (writeFailed \/ ~storageWorks)
       ELSE UNCHANGED <<highScore, storedHighScore, writeFailed>>

\* getDifficultySettings with the remainder in place of the quotient
getDifficultyLevel_remainder(sc) == sc % scorePerLevel

\* getDifficultySettings(score).difficultyLevel
getDifficultyLevel(sc) == sc \div scorePerLevel

\* getDifficultySettings(score).towerSpeed: BASE_TOWER_SPEED * (1 + level * 0.1)
getTowerSpeed(sc) ==
    PHYSICS_BASE_TOWER_SPEED + (PHYSICS_BASE_TOWER_SPEED * getDifficultyLevel(sc)) \div 10

\* getDifficultySettings(score).gapSize
getGapSize(sc) ==
    Max(minGapSizeCanvas,
        baseGapSize - Min(getDifficultyLevel(sc) * gapReductionPerLevel, maxGapReduction))

\* getDifficultySettings(score).towerSpacing
getTowerSpacing(sc) ==
    Max(minTowerSpacing,
        baseTowerSpacing
          - Min(getDifficultyLevel(sc) * spacingReductionPerLevel, maxSpacingReduction))

\* getDifficultySettings(score).gravity: GRAVITY + level * 0.01
getGravity(sc) == PHYSICS_GRAVITY + getDifficultyLevel(sc)

\* generateKuwaitTower(canvasWidth, height, gapSize), Math.random() = r[1] / r[2]
generateKuwaitTowerAt(r, gapSize, id, height) ==
    LET totalPlayableHeight ==
            height - PHYSICS_GROUND_HEIGHT - minGapFromTop - minGapFromBottom - gapSize
        gapStartY == minGapFromTop + (r[1] * totalPlayableHeight) \div r[2]
        bottomTowerY == gapStartY + gapSize
    IN  [id |-> id, x |-> canvasWidth, gapY |-> gapStartY, gapHeight |-> gapSize,
         topHeight |-> Max(minTowerHeight, gapStartY),
         bottomY |-> bottomTowerY,
         bottomHeight |->
             Max(minTowerHeight, (height - PHYSICS_GROUND_HEIGHT) - bottomTowerY)]

\* generateKuwaitTower(canvasWidth, canvasHeight, gapSize) in the window of the run
generateKuwaitTower(r, gapSize, id) == generateKuwaitTowerAt(r, gapSize, id, canvasHeight)

\* updateGame: the scoring check for one tower
Tower_scores(t, scoredIds) ==
    FALCON_X + FALCON_WIDTH > t.x + TOWER_WIDTH /\ t.id \notin scoredIds

\* updateGame: the collision check for one tower
Tower_collides(t, y) ==
    /\ FALCON_X + FALCON_WIDTH > t.x
    /\ FALCON_X < t.x + TOWER_WIDTH
    /\ (y < t.topHeight \/ y + FALCON_HEIGHT > t.bottomY)

\* updateGame: the boundary check
Falcon_outOfBounds(y) ==
    y >= (canvasHeight - GROUND_Y_OFFSET) - FALCON_HEIGHT \/ y <= 0

\* initializeGame, run by the effect when isPaused turns false
initializeGame ==
    /\ scoredTowers' = {}
    /\ currentScore' = 0
    /\ falcon' = [y |-> canvasHeight \div 2, velocityY |-> 0]
    /\ towers' = <<>>
    /\ currentDifficulty' = 0
    /\ towerIds' = 0
    /\ gameOverCalls' = 0
    /\ runs' = runs + 1
    /\ UNCHANGED <<app, audioWorks, difficultyEnabled, config, ui, viewportHeight, pixiVars, storageVars, sinceLastJump>>

\* App.handleStartGame, from the home screen
HandleStartGame ==
    /\ app = "react"
    /\ gameState = "home"
    /\ runs < MaxRuns
    /\ gameState' = "playing"
    /\ initializeGame

\* App.handleRestartGame, from the game-over screen
HandleRestartGame ==
    /\ app = "react"
    /\ gameState = "gameOver"
    /\ runs < MaxRuns
    /\ gameState' = "playing"
    /\ initializeGame

\* The canvas listeners handleTouch / handleClick on a falcon f: initAudioContext()
\* first, which throws out of the listener when no AudioContext can be constructed
\* (audio = FALSE), then flap(), dropped while isPaused
handleClick(f, playing, audio) ==
    IF audio /\ playing THEN [f EXCEPT !.velocityY = PHYSICS_FLAP_STRENGTH] ELSE f

\* GameCanvas handleTouch / handleClick with flap
Flap ==
    /\ app = "react"
    /\ falcon' = handleClick(falcon, gameState = "playing", audioWorks)
    /\ sinceLastJump' = IF gameState = "playing" /\ audioWorks THEN 0 ELSE sinceLastJump
    /\ UNCHANGED <<app, audioWorks, difficultyEnabled, config, ui, viewportHeight, pixiVars, storageVars, gameState, towers,
                   scoredTowers,
                   currentScore,
                   currentDifficulty, towerIds, gameOverCalls, runs>>

\* GameCanvas.updateGame for one animation frame while not paused; r is the
\* spawner's Math.random().  onGameOver reaches App.handleGameOver, whose re-render
\* sets isPaused before the next animation frame.
updateRunning(r) ==
    /\ LET v1 == falcon.velocityY + getGravity(currentScore)
           v2 == IF v1 > maxFallSpeed THEN maxFallSpeed ELSE v1
           y1 == falcon.y + v2
           lastX == towers[Len(towers)].x
           shouldSpawn == towers = <<>> \/ canvasWidth - lastX >= getTowerSpacing(currentScore)
           ts1 == IF shouldSpawn
                  THEN Append(towers,
                              generateKuwaitTower(r, getGapSize(currentScore), towerIds + 1))
                  ELSE towers
           moved == [i \in 1..Len(ts1) |->
                        [ts1[i] EXCEPT !.x = ts1[i].x - getTowerSpeed(currentScore)]]
           hits == {i \in 1..Len(ts1) : Tower_collides(moved[i], y1)}
           firstHit == IF hits = {} THEN 0 ELSE CHOOSE i \in hits : \A j \in hits : i <= j
           done == IF firstHit = 0 THEN Len(ts1) ELSE firstHit
           newlyScored == {moved[i].id : i \in {j \in 1..done :
                                                   Tower_scores(moved[j], scoredTowers)}}
       IN  /\ falcon' = [y |-> y1, velocityY |-> v2]
           /\ currentDifficulty' = getDifficultyLevel(currentScore)
           /\ IF Falcon_outOfBounds(y1)
              THEN /\ UNCHANGED <<towers, scoredTowers, currentScore, towerIds>>
                   /\ handleGameOver(currentScore)
                   /\ gameOverCalls' = gameOverCalls + 1
              ELSE /\ towerIds' = IF shouldSpawn THEN towerIds + 1 ELSE towerIds
                   /\ scoredTowers' = scoredTowers \cup newlyScored
                   /\ currentScore' = currentScore + Cardinality(newlyScored)
                   /\ IF firstHit = 0
                      THEN /\ towers' = SelectSeq(moved, LAMBDA t : t.x > -TOWER_WIDTH)
                           /\ UNCHANGED <<gameState, gameOverCalls, highScore,
                                          storedHighScore, writeFailed>>
                      ELSE /\ towers' = [i \in 1..Len(ts1) |->
                                            IF i <= firstHit THEN moved[i] ELSE ts1[i]]
                           /\ handleGameOver(currentScore')
                           /\ gameOverCalls' = gameOverCalls + 1

\* updateGame: TRUE for a frame that reaches a sounds.* call (boundary hit, tower
\* passed or tower hit)
callsSound(r) ==
    LET v1 == falcon.velocityY + getGravity(currentScore)
        v2 == IF v1 > maxFallSpeed THEN maxFallSpeed ELSE v1
        y1 == falcon.y + v2
        lastX == towers[Len(towers)].x
        shouldSpawn == towers = <<>> \/ canvasWidth - lastX >= getTowerSpacing(currentScore)
        ts1 == IF shouldSpawn
               THEN Append(towers,
                           generateKuwaitTower(r, getGapSize(currentScore), towerIds + 1))
               ELSE towers
        moved == [i \in 1..Len(ts1) |->
                     [ts1[i] EXCEPT !.x = ts1[i].x - getTowerSpeed(currentScore)]]
    IN  \/ Falcon_outOfBounds(y1)
        \/ \E i \in 1..Len(ts1) :
              Tower_collides(moved[i], y1) \/ Tower_scores(moved[i], scoredTowers)

\* updateGame while no AudioContext can be constructed: playSound calls
\* initAudioContext() outside its try block, so the first sounds.* call throws out of
\* the state updater before onGameOver; React drops the update and unmounts the
\* application ("crashed")
updateSilent(r) ==
    IF callsSound(r)
    THEN /\ gameState' = "crashed"
         /\ UNCHANGED <<falcon, towers, scoredTowers, currentScore, currentDifficulty,
                        towerIds, gameOverCalls, highScore, storedHighScore, writeFailed>>
    ELSE updateRunning(r)

\* GameCanvas.gameLoop and updateGame for one animation frame, FRAME_TIME after the
\* one before: updateGame returns at once while isPaused
UpdateGame(r) ==
    /\ app = "react"
    /\ currentScore < MaxCanvasScore
    /\ IF gameState = "playing"
       THEN (IF audioWorks THEN updateRunning(r) ELSE updateSilent(r))
       ELSE UNCHANGED <<gameState, falcon, towers, scoredTowers, currentScore,
                        currentDifficulty, towerIds, gameOverCalls, highScore,
                        storedHighScore, writeFailed>>
    /\ sinceLastJump' = Min(sinceLastJump + FRAME_TIME, jumpCooldown)
    /\ UNCHANGED <<app, audioWorks, difficultyEnabled, config, ui, viewportHeight, pixiVars, runs, storageWorks, readFailed>>

Next ==
    \/ StartGame
    \/ RestartGame
    \/ Jump
    \/ Escape
    \/ PageHidden
    \/ ResumeGame
    \/ \E ms \in TickSteps : TimePasses(ms)
    \/ \E delta \in Deltas, r \in RandChoices : Frame(delta, r)
    \/ HandleStartGame
    \/ HandleRestartGame
    \/ Flap
    \/ \E r \in RandChoices : UpdateGame(r)

Spec == Init /\ [][Next]_vars

(***************************************************************************)
(* The difficulty controller on its own.  A frame is reduced to what it    *)
(* does to the score: the flight is left out, so any order of passed       *)
(* obstacles, collected stars, collisions and restarts occurs, and every   *)
(* level is reached.                                                      *)
(***************************************************************************)

\* GameManager.update, a frame in which the avatar passes one obstacle
PassObstacle ==
    /\ app = "pixi"
    /\ currentState = "playing"
    /\ score < MaxDifficultyScore
    /\ score' = score + 1
    /\ ui' = UI_updateScore(ui, score + 1)
    /\ updateDifficulty(score + 1)
    /\ UNCHANGED <<app, audioWorks, difficultyEnabled, config, viewportHeight, currentState, player, sinceLastJump, obstacles,
                   spawnTimer, stars,
                   obstacleCount, shakeTimer, gameOverCalls, runs, canvasVars>>

\* GameManager.update, a frame in which the avatar touches one star
CollectStar ==
    /\ app = "pixi"
    /\ currentState = "playing"
    /\ score < MaxDifficultyScore
    /\ score' = score + 1
    /\ ui' = UI_updateScore(ui, score + 1)
    /\ UNCHANGED <<app, audioWorks, difficultyEnabled, config, viewportHeight, currentState, difficultyLevel, player,
                   sinceLastJump, obstacles,
                   spawnTimer, currentGapSize, currentSpeed, cfgGapSize, cfgSpeed, stars,
                   obstacleCount, shakeTimer, gameOverCalls, runs, canvasVars>>

\* GameManager.update, a frame in which checkCollisions() holds
Collide ==
    /\ app = "pixi"
    /\ currentState = "playing"
    /\ currentState' = gameOver(currentState)
    /\ ui' = UI_setStateGameOver(ui, score)
    /\ gameOverCalls' = gameOverCalls + 1
    /\ shakeTimer' = shakeDuration
    /\ UNCHANGED <<app, audioWorks, difficultyEnabled, config, viewportHeight, score, difficultyLevel, player, sinceLastJump,
                   obstacles,
                   spawnTimer, currentGapSize, currentSpeed, cfgGapSize, cfgSpeed, stars,
                   obstacleCount, runs, canvasVars>>

\* GameCanvas.updateGame, a frame in which the falcon passes one tower: the difficulty
\* is recomputed from the score at the start of the frame
PassTower ==
    /\ app = "react"
    /\ gameState = "playing"
    /\ currentScore < MaxDifficultyScore
    /\ currentDifficulty' = getDifficultyLevel(currentScore)
    /\ towerIds' = towerIds + 1
    /\ scoredTowers' = scoredTowers \cup {towerIds + 1}
    /\ currentScore' = currentScore + 1
    /\ UNCHANGED <<app, audioWorks, difficultyEnabled, config, ui, viewportHeight, pixiVars, storageVars, sinceLastJump,
                   gameState, falcon,
                   towers, gameOverCalls,
                   runs>>

\* GameCanvas.updateGame, a frame that ends in onGameOver
CanvasCollide ==
    /\ app = "react"
    /\ gameState = "playing"
    /\ currentDifficulty' = getDifficultyLevel(currentScore)
    /\ handleGameOver(currentScore)
    /\ gameOverCalls' = gameOverCalls + 1
    /\ UNCHANGED <<app, audioWorks, difficultyEnabled, config, ui, viewportHeight, pixiVars, sinceLastJump, falcon, towers,
                   scoredTowers, currentScore, towerIds, runs, storageWorks, readFailed>>

DifficultyNext ==
    \/ StartGame
    \/ RestartGame
    \/ PassObstacle
    \/ CollectStar
    \/ Collide
    \/ HandleStartGame
    \/ HandleRestartGame
    \/ PassTower
    \/ CanvasCollide

DifficultySpec == Init /\ [][DifficultyNext]_vars

(***************************************************************************)
(* The PIXI game in a window that is resized.  The frame simulation reads  *)
(* CONFIG as constructed, so frames and inputs are stepped up to the first *)
(* resize only; after it the window can only be resized again.             *)
(***************************************************************************)

\* window.innerWidth and window.innerHeight after a resize, in pixels
ResizeWidths == {800}
ResizeHeights == {600}

\* repositionGameElements: the avatar's x for a canvas of width w (tenths of a pixel)
repositionedX(w) == w \div 4

\* GameManager.resize with repositionGameElements (isInitialized is true once the
\* constructor has returned); w and h are the window's new size
Resize(w, h) ==
    /\ app = "pixi"
    /\ viewportHeight' = h
    /\ config' = [canvas_width |-> w * 10, canvas_height |-> h * 10,
                  startX |-> repositionedX(w * 10), startY |-> (h * 10) \div 2,
                  spawnX |-> w * 10 + 500,
                  groundHeight |-> Max(500, (h * 10) \div 20)]
    /\ player' = [player EXCEPT !.x = repositionedX(w * 10)]
    /\ ui' = UI_refreshVisuals(ui, currentState)
    /\ UNCHANGED <<app, audioWorks, difficultyEnabled, currentState, score,
                   difficultyLevel, sinceLastJump, obstacles, spawnTimer, currentGapSize,
                   currentSpeed, cfgGapSize, cfgSpeed, stars, obstacleCount, shakeTimer,
                   gameOverCalls, runs, canvasVars>>

ResizeInit ==
    /\ app = "pixi"
    /\ audioWorks = TRUE
    /\ difficultyEnabled = difficulty_enabled
    /\ config = ConfigAsConstructed
    /\ viewportHeight = canvas_height \div 10
    /\ Constructed
    /\ Mounted(0, TRUE)

\* The handlers of the frame simulation, taken while CONFIG is as constructed
StartGameUnresized == config = ConfigAsConstructed /\ StartGame
RestartGameUnresized == config = ConfigAsConstructed /\ RestartGame
JumpUnresized == config = ConfigAsConstructed /\ Jump
TimePassesUnresized(ms) == config = ConfigAsConstructed /\ TimePasses(ms)
FrameUnresized(delta, r) == config = ConfigAsConstructed /\ Frame(delta, r)

ResizeNext ==
    \/ StartGameUnresized
    \/ RestartGameUnresized
    \/ JumpUnresized
    \/ \E ms \in TickSteps : TimePassesUnresized(ms)
    \/ \E delta \in Deltas, r \in RandChoices : FrameUnresized(delta, r)
    \/ \E w \in ResizeWidths, h \in ResizeHeights : Resize(w, h)

ResizeSpec == ResizeInit /\ [][ResizeNext]_vars

\* The PIXI game's difficulty controller with CONFIG.difficulty.enabled edited to
\* either value before the page is loaded
DifficultyConfigInit ==
    /\ app = "pixi"
    /\ audioWorks = TRUE
    /\ difficultyEnabled \in BOOLEAN
    /\ config = ConfigAsConstructed
    /\ viewportHeight = canvas_height \div 10
    /\ Constructed
    /\ Mounted(0, TRUE)

DifficultyConfigNext ==
    \/ StartGame
    \/ RestartGame
    \/ PassObstacle
    \/ CollectStar
    \/ Collide

DifficultyConfigSpec == DifficultyConfigInit /\ [][DifficultyConfigNext]_vars

(***************************************************************************)
(* The spawners on their own, in windows of several heights.  A frame is   *)
(* reduced to what it does to the obstacle and star lists, the counters    *)
(* and the score: the flight and the horizontal motion are left out.       *)
(***************************************************************************)

\* The page loaded in a window of any of the heights
SpawnInit ==
    /\ app \in {"pixi", "react"}
    /\ audioWorks = TRUE
    /\ difficultyEnabled = difficulty_enabled
    /\ config = ConfigAsConstructed
    /\ viewportHeight \in Heights
    /\ Constructed
    /\ Mounted(0, TRUE)

\* ObstacleManager.update, a frame whose spawn timer has run out: spawnObstacle and
\* the StarManager.onObstacleSpawned callback; r is Math.random()
SpawnObstacle(r) ==
    /\ app = "pixi"
    /\ currentState = "playing"
    /\ obstacleCount < MaxSpawned
    /\ Len(obstacles) < MaxOnScreen
    /\ LET height == viewportHeight * 10
           gapY == randomGapPositionAt(r, cfgGapSize, height)
           n1 == obstacleCount + 1
       IN  /\ obstacleCount' = n1
           /\ obstacles' = Append(obstacles,
                                  Obstacle_newAt(obstacles_spawnX, gapY, cfgGapSize, n1,
                                                 height))
           /\ stars' = StarManager_onObstacleSpawned(stars, n1, obstacles_spawnX, gapY)
    /\ UNCHANGED <<app, audioWorks, difficultyEnabled, config, ui, viewportHeight, currentState, score, difficultyLevel, player,
                   sinceLastJump, spawnTimer, currentGapSize, currentSpeed, cfgGapSize,
                   cfgSpeed, shakeTimer, gameOverCalls, runs, canvasVars>>

\* GameManager.update, a frame in which the avatar passes an obstacle on screen
ScoreObstacle ==
    /\ app = "pixi"
    /\ currentState = "playing"
    /\ \E i \in 1..Len(obstacles) :
          /\ ~obstacles[i].scored
          /\ obstacles' = [obstacles EXCEPT ![i].scored = TRUE]
    /\ score' = score + 1
    /\ ui' = UI_updateScore(ui, score + 1)
    /\ updateDifficulty(score + 1)
    /\ UNCHANGED <<app, audioWorks, difficultyEnabled, config, viewportHeight, currentState, player, sinceLastJump, spawnTimer,
                   stars, obstacleCount, shakeTimer, gameOverCalls, runs, canvasVars>>

\* ObstacleManager.update, a frame in which the oldest obstacle, passed by the
\* avatar, has left the screen
ObstacleLeaves ==
    /\ app = "pixi"
    /\ currentState = "playing"
    /\ obstacles # <<>>
    /\ obstacles[1].scored
    /\ obstacles' = Tail(obstacles)
    /\ UNCHANGED <<app, audioWorks, difficultyEnabled, config, ui, viewportHeight, currentState, score, difficultyLevel, player,
                   sinceLastJump, spawnTimer, currentGapSize, currentSpeed, cfgGapSize,
                   cfgSpeed, stars, obstacleCount, shakeTimer, gameOverCalls, runs,
                   canvasVars>>

\* StarManager.update, a frame in which the oldest star has left the screen
StarLeaves ==
    /\ app = "pixi"
    /\ currentState = "playing"
    /\ stars # <<>>
    /\ stars' = Tail(stars)
    /\ UNCHANGED <<app, audioWorks, difficultyEnabled, config, ui, viewportHeight, currentState, score, difficultyLevel, player,
                   sinceLastJump, obstacles, spawnTimer, currentGapSize, currentSpeed,
                   cfgGapSize, cfgSpeed, obstacleCount, shakeTimer, gameOverCalls, runs,
                   canvasVars>>

\* GameCanvas.updateGame, a frame that spawns a tower; r is Math.random()
SpawnTower(r) ==
    /\ app = "react"
    /\ gameState = "playing"
    /\ towerIds < MaxSpawned
    /\ Len(towers) < MaxOnScreen
    /\ towers' = Append(towers,
                        generateKuwaitTowerAt(r, getGapSize(currentScore), towerIds + 1,
                                              viewportHeight * 100))
    /\ towerIds' = towerIds + 1
    /\ currentDifficulty' = getDifficultyLevel(currentScore)
    /\ UNCHANGED <<app, audioWorks, difficultyEnabled, config, ui, viewportHeight, pixiVars, storageVars, sinceLastJump,
                   gameState, falcon,
                   scoredTowers, currentScore, gameOverCalls, runs>>

\* GameCanvas.updateGame, a frame in which the falcon passes a tower on screen
ScoreTower ==
    /\ app = "react"
    /\ gameState = "playing"
    /\ \E i \in 1..Len(towers) :
          /\ towers[i].id \notin scoredTowers
          /\ scoredTowers' = scoredTowers \cup {towers[i].id}
    /\ currentScore' = currentScore + 1
    /\ currentDifficulty' = getDifficultyLevel(currentScore)
    /\ UNCHANGED <<app, audioWorks, difficultyEnabled, config, ui, viewportHeight, pixiVars, storageVars, sinceLastJump,
                   gameState, falcon,
                   towers, towerIds, gameOverCalls, runs>>

\* GameCanvas.updateGame, a frame in which the oldest tower, passed by the falcon,
\* has left the screen
TowerLeaves ==
    /\ app = "react"
    /\ gameState = "playing"
    /\ towers # <<>>
    /\ towers[1].id \in scoredTowers
    /\ towers' = Tail(towers)
    /\ currentDifficulty' = getDifficultyLevel(currentScore)
    /\ UNCHANGED <<app, audioWorks, difficultyEnabled, config, ui, viewportHeight, pixiVars, storageVars, sinceLastJump,
                   gameState, falcon,
                   scoredTowers, currentScore, towerIds, gameOverCalls, runs>>

SpawnNext ==
    \/ StartGame
    \/ RestartGame
    \/ \E r \in RandChoices : SpawnObstacle(r)
    \/ ScoreObstacle
    \/ ObstacleLeaves
    \/ StarLeaves
    \/ Collide
    \/ HandleStartGame
    \/ HandleRestartGame
    \/ \E r \in RandChoices : SpawnTower(r)
    \/ ScoreTower
    \/ TowerLeaves
    \/ CanvasCollide

SpawnSpec == SpawnInit /\ [][SpawnNext]_vars

(***************************************************************************)
(* The high score of the canvas game on its own: the page is loaded with   *)
(* any stored best and a store that works or throws, and frames are        *)
(* reduced to what they do to the score, as in the difficulty controller.  *)
(***************************************************************************)

\* App mounted over a store left by an earlier session
StorageInit ==
    /\ app = "react"
    /\ audioWorks = TRUE
    /\ difficultyEnabled = difficulty_enabled
    /\ config = ConfigAsConstructed
    /\ viewportHeight = innerHeight
    /\ Constructed
    /\ \E st \in StoredAtLoad : \E ok \in BOOLEAN : Mounted(st, ok)

\* The environment: localStorage starts or stops throwing (storage access granted
\* or blocked, quota reached or freed)
StorageAvailabilityChanges ==
    /\ app = "react"
    /\ storageWorks' = ~storageWorks
    /\ UNCHANGED <<app, audioWorks, difficultyEnabled, config, ui, viewportHeight, pixiVars, sinceLastJump, gameState, falcon,
                   towers, scoredTowers, currentScore, currentDifficulty, towerIds,
                   highScore, storedHighScore, readFailed, writeFailed, gameOverCalls,
                   runs>>

StorageNext ==
    \/ HandleStartGame
    \/ HandleRestartGame
    \/ PassTower
    \/ CanvasCollide
    \/ StorageAvailabilityChanges

StorageSpec == StorageInit /\ [][StorageNext]_vars

(***************************************************************************)
(* The obstacle manager of the PIXI game on its own, under frames of       *)
(* unequal length: the avatar's flight and the collisions are left out, so *)
(* runs last long enough for several obstacles to follow one another.      *)
(***************************************************************************)

\* Ticker deltas of a run whose frame rate is not steady
JitterDeltas == {8, 16}

\* Math.random() in the spacing specification
SpacingRand == {<<1, 2>>}

\* Obstacles spawned in one run of the spacing specification
MaxSpacingSpawned == 4

\* ObstacleManager.update(delta) with spawnObstacle and its onObstacleSpawned
\* callback; r is Math.random()
ObstacleManagerUpdate(delta, r) ==
    /\ app = "pixi"
    /\ currentState = "playing"
    /\ obstacleCount < MaxSpacingSpawned
    /\ LET t1 == spawnTimer.num - delta * spawnTimer.den
           spawn == t1 <= 0
           gapY == randomGapPosition(r, cfgGapSize)
           n1 == IF spawn THEN obstacleCount + 1 ELSE obstacleCount
           os1 == IF spawn
                  THEN Append(obstacles,
                              Obstacle_new(obstacles_spawnX, gapY, cfgGapSize, n1))
                  ELSE obstacles
       IN  /\ spawnTimer' = IF spawn THEN rearmed(currentSpeed)
                                     ELSE [spawnTimer EXCEPT !.num = t1]
           /\ obstacleCount' = n1
           /\ stars' = IF spawn
                       THEN StarManager_onObstacleSpawned(stars, n1, obstacles_spawnX,
                                                          gapY)
                       ELSE stars
           /\ obstacles' = ObstacleManager_advance(os1, delta, cfgSpeed)
    /\ UNCHANGED <<app, audioWorks, difficultyEnabled, config, ui, viewportHeight,
                   currentState, score, difficultyLevel, player, sinceLastJump,
                   currentGapSize, currentSpeed, cfgGapSize, cfgSpeed, shakeTimer,
                   gameOverCalls, runs, canvasVars>>

\* GameManager.update, a frame in which the avatar passes one obstacle, early in a run
PassObstacleEarly == score < MaxScore /\ PassObstacle

SpacingNext ==
    \/ StartGame
    \/ PassObstacleEarly
    \/ \E delta \in JitterDeltas, r \in SpacingRand : ObstacleManagerUpdate(delta, r)

SpacingSpec == ResizeInit /\ [][SpacingNext]_vars

(***************************************************************************)
(* The canvas game loaded in a browser that may or may not be able to      *)
(* construct an AudioContext.                                              *)
(***************************************************************************)

AudioInit ==
    /\ app = "react"
    /\ audioWorks \in BOOLEAN
    /\ difficultyEnabled = difficulty_enabled
    /\ config = ConfigAsConstructed
    /\ viewportHeight = innerHeight
    /\ Constructed
    /\ Mounted(0, TRUE)

AudioNext ==
    \/ HandleStartGame
    \/ HandleRestartGame
    \/ Flap
    \/ \E r \in RandChoices : UpdateGame(r)

AudioSpec == AudioInit /\ [][AudioNext]_vars

(***************************************************************************)
(* Properties                                                              *)
(***************************************************************************)

\* C1: within a run the score grows in every step by exactly the number of
\* obstacles (towers) that become scored in that step plus the number of stars
\* that become collected, and a scored obstacle stays scored: no obstacle adds
\* to the score twice, however many frames the avatar stays past it.
C1_EachObstacleScoresOnce ==
    [][runs' = runs =>
         LET scoredBefore == {obstacles[i].id : i \in {j \in 1..Len(obstacles) :
                                                          obstacles[j].scored}}
             scoredAfter == {obstacles'[i].id : i \in {j \in 1..Len(obstacles') :
                                                          obstacles'[j].scored}}
             presentAfter == {obstacles'[i].id : i \in 1..Len(obstacles')}
             collectedBefore == {stars[i].id : i \in {j \in 1..Len(stars) :
                                                         stars[j].collected}}
             collectedAfter == {stars'[i].id : i \in {j \in 1..Len(stars') :
                                                         stars'[j].collected}}
         IN  /\ (scoredBefore \cap presentAfter) \subseteq scoredAfter
             /\ score' - score = Cardinality(scoredAfter \ scoredBefore)
                                   + Cardinality(collectedAfter \ collectedBefore)
             /\ scoredTowers \subseteq scoredTowers'
             /\ currentScore' - currentScore = Cardinality(scoredTowers' \ scoredTowers)
      ]_vars

\* C1 witness: the game is still playing more than a frame after an obstacle was
\* scored, with the avatar still past its trailing edge
C1_Witness ==
    /\ app = "pixi"
    /\ currentState = "playing"
    /\ \E i \in 1..Len(obstacles) :
          /\ obstacles[i].scored
          /\ \E delta \in Deltas :
                obstacles[i].x + obstacles_width + cfgSpeed * delta < player.x

\* C2 as stated: the frame that ends the game leaves the score as it was at the
\* start of that frame.
C2_NoScoreInDeathFrame ==
    [][(app = "pixi" /\ currentState = "playing" /\ currentState' = "game_over")
          => score' = score]_vars

\* C3: game over is signalled at most once per run, and exactly once in every
\* run that is over, however many frames follow before the restart.
C3_GameOverSignalledOnce ==
    /\ gameOverCalls <= 1
    /\ app = "pixi" => (gameOverCalls = 1 <=> currentState = "game_over")
    /\ app = "react" => (gameOverCalls = 1 <=> gameState = "gameOver")

\* C3 witness: the game is over and enough frames have followed for the screen
\* shake started by gameOver() to run out
C3_Witness ==
    /\ app = "pixi"
    /\ currentState = "game_over"
    /\ gameOverCalls = 1
    /\ shakeTimer <= 0

\* C4 as stated: the avatar's alive flag is false exactly when the game is over.
C4_DeadIffGameOver ==
    app = "pixi" => (~player.isAlive <=> currentState = "game_over")

C6_LevelNeverDecreases ==
    [][runs' = runs =>
         /\ difficultyLevel' >= difficultyLevel
         /\ currentDifficulty' >= currentDifficulty
      ]_vars

\* C6 witness: the level has risen twice in a run and the score has moved on since
C6_Witness ==
    /\ app = "pixi"
    /\ currentState = "playing"
    /\ difficultyLevel = 2
    /\ score > scoreThresholds[2]

\* C7 as stated: while playing, the difficulty level is the number of score
\* thresholds that are less than or equal to the score.
C7_LevelMatchesScore ==
    (app = "pixi" /\ currentState = "playing")
       => difficultyLevel = Cardinality({i \in DOMAIN scoreThresholds :
                                            scoreThresholds[i] <= score})

\* C8 as stated: in the first run, once the level is L >= 1 the gap size in effect
\* is max(150 - L * gapReduction, minGapSize) and the speed in effect is
\* min(2.5 + L * speedIncrease, maxSpeed).
C8_GapAndSpeedFromBase ==
    (app = "pixi" /\ runs = 1 /\ difficultyLevel >= 1)
       => /\ currentGapSize =
                Max(obstacles_gapSize - difficultyLevel * difficulty_gapReduction,
                    difficulty_minGapSize)
          /\ currentSpeed =
                Min(obstacles_speed + difficultyLevel * difficulty_speedIncrease,
                    difficulty_maxSpeed)

\* C9: the gap size in effect is never below minGapSize and the speed in effect
\* never above maxSpeed, in the obstacle manager and in the configuration that
\* obstacles read.
C9_GapAndSpeedWithinLimits ==
    /\ currentGapSize >= difficulty_minGapSize
    /\ cfgGapSize >= difficulty_minGapSize
    /\ currentSpeed <= difficulty_maxSpeed
    /\ cfgSpeed <= difficulty_maxSpeed

\* C9 witness: difficulty updates have driven both the gap size and the speed to
\* their limits
C9_Witness ==
    /\ app = "pixi"
    /\ difficultyLevel >= 4
    /\ currentGapSize = difficulty_minGapSize
    /\ currentSpeed = difficulty_maxSpeed

\* C10 as stated: at level 0 of any run the gap size and the speed in effect, and
\* the gap of every obstacle on screen, are the originally configured ones.
C10_NewRunStartsFromBase ==
    (app = "pixi" /\ currentState = "playing" /\ difficultyLevel = 0)
       => /\ currentGapSize = obstacles_gapSize
          /\ currentSpeed = obstacles_speed
          /\ cfgGapSize = obstacles_gapSize
          /\ cfgSpeed = obstacles_speed
          /\ \A i \in 1..Len(obstacles) :
                canvas_height - obstacles[i].topHeight - obstacles[i].bottomHeight
                   = obstacles_gapSize

\* C11 as stated: a difficulty update leaves the collision geometry of every
\* obstacle already on screen unchanged: the lower edge of its top segment and the
\* upper edge of its bottom segment, as Obstacle.checkCollision reads them, are the
\* same before and after the update.
C11_InFlightGeometryKept ==
    [][(app = "pixi" /\ difficultyLevel' > difficultyLevel)
          => \A i \in 1..Len(obstacles) : \A j \in 1..Len(obstacles') :
                obstacles'[j].id = obstacles[i].id
                   => /\ obstacles'[j].topHeight = obstacles[i].topHeight
                      /\ obstacles'[j].gapY + cfgGapSize' \div 2
                            = obstacles[i].gapY + cfgGapSize \div 2]_vars

\* C12 as stated: every obstacle (tower), at the moment it is spawned, has
\* topHeight + gapHeight + bottomHeight equal to the playfield height: the canvas
\* height for an obstacle, the canvas height above the ground strip for a tower.
C12_SegmentsFillPlayfield ==
    [][/\ (app = "pixi" /\ obstacleCount' = obstacleCount + 1)
          => LET o == obstacles'[Len(obstacles')]
             IN  o.topHeight + cfgGapSize + o.bottomHeight = viewportHeight * 10
       /\ (app = "react" /\ towerIds' = towerIds + 1)
          => LET t == towers'[Len(towers')]
             IN  t.topHeight + t.gapHeight + t.bottomHeight
                    = viewportHeight * 100 - PHYSICS_GROUND_HEIGHT]_vars

\* C13 as stated: whatever the height of the window, every spawned obstacle has a
\* top segment and a bottom segment of at least the configured minimum height (so
\* never a negative one).
C13_SegmentsAtLeastMinimum ==
    \A i \in 1..Len(obstacles) :
        /\ obstacles[i].topHeight >= obstacles_minHeight
        /\ obstacles[i].bottomHeight >= obstacles_minHeight

\* C14: the k-th obstacle spawned since the last reset brings exactly one new star
\* when k is a multiple of 5, placed at the obstacle's gap centre, and no star
\* otherwise; a reset empties the star list and restarts the count at 0.
C14_StarEveryFifthObstacle ==
    [][/\ (app = "pixi" /\ runs' = runs /\ obstacleCount' # obstacleCount)
          => /\ obstacleCount' = obstacleCount + 1
             /\ obstacles'[Len(obstacles')].id = obstacleCount'
             /\ IF obstacleCount' % 5 = 0
                THEN /\ Len(stars') = Len(stars) + 1
                     /\ SubSeq(stars', 1, Len(stars)) = stars
                     /\ stars'[Len(stars')].y = obstacles'[Len(obstacles')].gapY
                     /\ ~stars'[Len(stars')].collected
                ELSE stars' = stars
       /\ (app = "pixi" /\ runs' # runs) => (obstacleCount' = 0 /\ stars' = <<>>)]_vars

\* C14 witness: in the second run the fifth obstacle has brought a star and the
\* sixth has not
C14_Witness ==
    /\ app = "pixi"
    /\ runs = 2
    /\ obstacleCount = 6
    /\ Len(stars) = 1
    /\ stars[1].id = 5

\* C15: each star adds exactly 1 to the score at most once.  In every step of a run
\* the stars' share of the score gain is the number of stars that turn collected
\* in that step; a star collected earlier stays collected or is gone, and a star
\* that has left the list never comes back, so no later frame counts it again.
C15_EachStarScoresOnce ==
    [][(app = "pixi" /\ runs' = runs) =>
         LET newlyScored == {obstacles'[i].id : i \in {j \in 1..Len(obstacles') :
                                                          obstacles'[j].scored}}
                               \ {obstacles[i].id : i \in {j \in 1..Len(obstacles) :
                                                              obstacles[j].scored}}
             idsBefore == {stars[i].id : i \in 1..Len(stars)}
             collectedBefore == {stars[i].id : i \in {j \in 1..Len(stars) :
                                                         stars[j].collected}}
             idsAfter == {stars'[i].id : i \in 1..Len(stars')}
             collectedAfter == {stars'[i].id : i \in {j \in 1..Len(stars') :
                                                         stars'[j].collected}}
         IN  /\ score' - score - Cardinality(newlyScored)
                   = Cardinality(collectedAfter \ collectedBefore)
             /\ (collectedBefore \cap idsAfter) \subseteq collectedAfter
             /\ \A id \in idsAfter \ idsBefore : id > obstacleCount
             /\ \A id \in idsBefore : id <= obstacleCount
      ]_vars

\* C15 witness: the game is playing with a star already collected and the avatar
\* still within collecting distance of it
C15_Witness ==
    /\ app = "pixi"
    /\ currentState = "playing"
    /\ \E i \in 1..Len(stars) :
          /\ stars[i].collected
          /\ (stars[i].x - player.x) * (stars[i].x - player.x)
                + (stars[i].y - player.y) * (stars[i].y - player.y)
                < (playerRadius + starRadius) * (playerRadius + starRadius)

\* C16 as stated: a jump call on a living avatar less than the debounce interval
\* after the last jump that took effect is dropped: while less than jumpCooldown
\* has passed, no step sets the vertical velocity to the jump impulse or restarts
\* the time since the last jump.
C16_SecondJumpDropped ==
    [][sinceLastJump < jumpCooldown
          => /\ sinceLastJump' >= sinceLastJump
             /\ (player'.velocityY = player_jumpForce
                    => player.velocityY = player_jumpForce)
             /\ (falcon'.velocityY = PHYSICS_FLAP_STRENGTH
                    => falcon.velocityY = PHYSICS_FLAP_STRENGTH)]_vars

\* C17: the game starts in Menu (the home screen), and every change of the game
\* state is Menu to Playing, Playing to Paused, Paused to Playing, Playing to
\* GameOver, GameOver to Playing or GameOver to Menu.
C17_AllowedTransitions ==
    /\ currentState = "menu"
    /\ gameState = "home"
    /\ [][/\ currentState' # currentState
             => <<currentState, currentState'>>
                   \in {<<"menu", "playing">>, <<"playing", "paused">>,
                        <<"paused", "playing">>, <<"playing", "game_over">>,
                        <<"game_over", "playing">>, <<"game_over", "menu">>}
          /\ gameState' # gameState
             => <<gameState, gameState'>>
                   \in {<<"home", "playing">>, <<"playing", "gameOver">>,
                        <<"gameOver", "playing">>, <<"gameOver", "home">>}]_vars

\* C17 witness: the second run, entered from GameOver, has been paused
C17_Witness ==
    /\ app = "pixi"
    /\ runs = 2
    /\ currentState = "paused"

\* C18: while the game is in Menu, Paused or GameOver and stays there, no step (a
\* frame tick or a jump input among them) changes the avatar, the obstacles, the
\* stars, the score or the difficulty level.
C18_FrozenOutsidePlaying ==
    [][/\ (app = "pixi" /\ currentState # "playing" /\ currentState' = currentState)
          => UNCHANGED <<player, obstacles, stars, score, difficultyLevel>>
       /\ (app = "react" /\ gameState # "playing" /\ gameState' = gameState)
          => UNCHANGED <<falcon, towers, currentScore, currentDifficulty>>]_vars

\* C18 witness: the game is paused in mid-flight with an obstacle on screen and the
\* jump cooldown over, so that a jump or a frame would act if it were processed
C18_Witness ==
    /\ app = "pixi"
    /\ currentState = "paused"
    /\ obstacles # <<>>
    /\ player.velocityY # 0
    /\ canJump(player, sinceLastJump)

\* C19: a step that enters Playing from Menu or GameOver leaves a fully reset
\* round: score 0, no obstacles, no stars, obstacle counter and spawn timer 0, the
\* avatar alive at its start position with zero velocity (the canvas game: score 0,
\* no towers, nothing scored, the falcon at mid-height with zero velocity).
C19_FullResetOnStart ==
    [][/\ (currentState \in {"menu", "game_over"} /\ currentState' = "playing")
          => /\ score' = 0
             /\ obstacles' = <<>>
             /\ stars' = <<>>
             /\ obstacleCount' = 0
             /\ spawnTimer'.num = 0
             /\ player'.isAlive
             /\ player'.x = player_startX
             /\ player'.y = player_startY
             /\ player'.velocityY = 0
       /\ (gameState \in {"home", "gameOver"} /\ gameState' = "playing")
          => /\ currentScore' = 0
             /\ towers' = <<>>
             /\ scoredTowers' = {}
             /\ falcon' = [y |-> (viewportHeight * 100) \div 2, velocityY |-> 0]]_vars

\* C19 witness: a second run has just begun after a run that reached level 1
C19_Witness ==
    /\ app = "pixi"
    /\ runs = 2
    /\ currentState = "playing"
    /\ score = 0
    /\ obstacleCount = 0
    /\ cfgGapSize < obstacles_gapSize

\* C20 as stated: an Escape keydown toggles between Playing and Paused: in Playing
\* it leads to Paused, in Paused back to Playing, and in Menu and GameOver it
\* changes nothing.
C20_EscapeToggles ==
    app = "pixi"
       => handleEscape(currentState)
             = (CASE currentState = "playing" -> "paused"
                  [] currentState = "paused" -> "playing"
                  [] OTHER -> currentState)

C22_StorageFailuresSwallowed ==
    /\ readFailed => highScore = 0
    /\ [][(gameState = "playing" /\ gameOverCalls' = gameOverCalls + 1)
             => /\ gameState' = "gameOver"
                /\ highScore' = Max(highScore, currentScore')
                /\ ~storageWorks => storedHighScore' = storedHighScore]_vars

\* C22 witness: the read at load threw over a stored best, and a run has ended with
\* a new best whose write threw as well
C22_Witness ==
    /\ readFailed
    /\ writeFailed
    /\ gameState = "gameOver"
    /\ highScore > 0
    /\ storedHighScore > highScore

\* C23 as stated: audio availability does not influence the simulation.  Checked
\* as step consistency: in every state a run reaches, the same input gives the same
\* falcon with and without working audio, and without working audio the game is
\* never in a state the simulation with audio does not have.
C23_AudioDoesNotInfluence ==
    /\ handleClick(falcon, gameState = "playing", TRUE)
          = handleClick(falcon, gameState = "playing", FALSE)
    /\ gameState \in {"home", "playing", "gameOver"}

\* C24 as stated: with CONFIG.difficulty.enabled false, the gap size and the obstacle
\* speed in effect stay at their initial configured values whatever score is reached.
C24_DisabledDifficultyStaysInitial ==
    ~difficultyEnabled =>
        /\ currentGapSize = obstacles_gapSize
        /\ currentSpeed = obstacles_speed

\* C25 as stated: a resize during a run leaves the positions of the avatar, of every
\* obstacle and of every collectible as they were immediately before it.
C25_ResizeKeepsInFlightPositions ==
    [][(currentState = "playing" /\ config' # config)
          => /\ player'.x = player.x
             /\ player'.y = player.y
             /\ obstacles' = obstacles
             /\ stars' = stars]_vars

\* C26: the avatar's vertical velocity is within [-maxVelocityY, +maxVelocityY] after
\* every Player.update step and every accepted jump, and the falcon's downward
\* velocity in the canvas loop never exceeds 12.
C26_VelocityWithinLimits ==
    /\ app = "pixi" => /\ player.velocityY >= -player_maxVelocityY
                       /\ player.velocityY <= player_maxVelocityY
    /\ app = "react" => falcon.velocityY <= maxFallSpeed

\* C26: a run in which the clamp has acted: the avatar falls at the terminal velocity.
C26_Witness ==
    /\ app = "pixi"
    /\ currentState = "playing"
    /\ player.isAlive
    /\ player.velocityY = player_maxVelocityY

\* C27 as stated: for every obstacle on screen, a circle of the avatar's radius
\* exactly tangent to the top segment, to the bottom segment or to either side of the
\* horizontal band is not a collision, and a circle one unit closer is, the segments
\* being the ones the obstacle was built with.
C27_StrictBoundaryUniform ==
    app = "pixi" =>
        \A i \in 1..Len(obstacles) :
            LET o == obstacles[i]
                bottomY == canvas_height - o.bottomHeight
                midX == o.x + obstacles_width \div 2
                hit(px, py) == Obstacle_checkCollision(o, px, py, playerRadius, cfgGapSize)
            IN  /\ ~hit(midX, o.topHeight + playerRadius)
                /\ hit(midX, o.topHeight + playerRadius - 1)
                /\ ~hit(midX, bottomY - playerRadius)
                /\ hit(midX, bottomY - playerRadius + 1)
                /\ ~hit(o.x - playerRadius, o.topHeight - 1)
                /\ hit(o.x - playerRadius + 1, o.topHeight - 1)
                /\ ~hit(o.x + obstacles_width + playerRadius, o.topHeight - 1)
                /\ hit(o.x + obstacles_width + playerRadius - 1, o.topHeight - 1)

\* C28 as stated: for every obstacle on screen and every avatar position, along the
\* segment edges and around the corners of the gap, the decision of
\* Obstacle.checkCollision equals the closest-point test against the obstacle's top
\* and bottom rectangles with the same radius.
C28_DecisionEqualsClosestPoint ==
    app = "pixi" =>
        \A i \in 1..Len(obstacles) :
            LET o == obstacles[i]
                bottomY == o.gapY + cfgGapSize \div 2
                xs == {o.x - playerRadius + 1, o.x - 1, o.x + obstacles_width \div 2,
                       o.x + obstacles_width + playerRadius - 1}
                ys == {o.topHeight - 1, o.topHeight + 1, o.topHeight + playerRadius - 1,
                       o.gapY, bottomY - playerRadius + 1, bottomY + 1}
            IN  \A px \in xs, py \in ys :
                    Obstacle_checkCollision(o, px, py, playerRadius, cfgGapSize)
                       <=> \/ closestPointCollision(px, py, playerRadius, o.x, 0,
                                                    obstacles_width, o.topHeight)
                           \/ closestPointCollision(px, py, playerRadius, o.x, bottomY,
                                                    obstacles_width,
                                                    canvas_height - bottomY)

C30_FinalScoreShownIsScore ==
    (app = "pixi" /\ currentState = "game_over") => ui.finalScoreText = score

=============================================================================
